---- MODULE Spec2Model ----
(***************************************************************************)
(* slackauth: the "Add to Slack" service.  New validates Options and loads *)
(* the templates, Run starts the notifier worker and the HTTP server, the  *)
(* /auth handler exchanges the code, renders a page and pushes the result  *)
(* on the one-slot channel auths, the worker hands each result to the      *)
(* callback set by OnAuth, and the / handler renders the button template.  *)
(***************************************************************************)
EXTENDS Integers, Sequences, FiniteSets, TLC

(***************************************************************************)
(* Bounds of the model.                                                    *)
(***************************************************************************)
MaxReqs == 2
MaxOnAuth == 2

Reqs == 1..MaxReqs

(***************************************************************************)
(* Values.                                                                 *)
(***************************************************************************)
NilTpl == "<nil template>"
NoErr == "<nil error>"
NilAuth == [AccessToken |-> "", ptr |-> 0]
NilCallback == 0

ErrInvalidConfig == "slackauth: addr, client id and client secret can not be empty"
ErrMissingScopes == "At least one scope needed"
ErrReadFile == "ioutil.ReadFile error"
ErrParse == "template parse error"
ErrInvalidCode == "invalid code"

StatusOK == 200
StatusUnauthorized == 401
StatusInternalServerError == 500
AuthsCap == 1

(***************************************************************************)
(* The files the configurations name: valid.txt holds a template, as in    *)
(* TestNew; invalid.txt does not exist; broken.txt exists and does not     *)
(* parse; the empty path cannot be read.                                   *)
(***************************************************************************)
Paths == {"", "valid.txt", "invalid.txt", "broken.txt"}

FileSystem ==
  [p \in Paths |->
     CASE p = "valid.txt" -> "template"
       [] p = "broken.txt" -> "unparseable"
       [] OTHER -> "absent"]

readTemplate(file) ==
  IF FileSystem[file] = "absent" THEN [tpl |-> NilTpl, err |-> ErrReadFile]
  ELSE IF FileSystem[file] = "unparseable" THEN [tpl |-> NilTpl, err |-> ErrParse]
  ELSE [tpl |-> file, err |-> NoErr]

RECURSIVE Join(_, _)
Join(elems, sep) ==
  IF elems = <<>> THEN ""
  ELSE IF Len(elems) = 1 THEN elems[1]
  ELSE elems[1] \o sep \o Join(Tail(elems), sep)

OptionsSet ==
  [Addr : {"", ":8080"},
   ClientID : {"", "foo"},
   ClientSecret : {"", "bar"},
   SuccessTpl : Paths,
   ErrorTpl : Paths,
   ButtonTpl : Paths,
   Scopes : {<<>>, <<"bot", "commands">>}]

NoService ==
  [clientID |-> "", clientSecret |-> "", addr |-> "",
   successTpl |-> NilTpl, errorTpl |-> NilTpl, buttonTpl |-> NilTpl, scopes |-> ""]

ScopesMissingM(scopes) == FALSE
ScopesMissing(scopes) == Len(scopes) = 0

configureButton(s, buttonTpl, scopes) ==
  IF buttonTpl # ""
  THEN LET t == readTemplate(buttonTpl) IN
       IF t.err # NoErr THEN [s |-> s, err |-> t.err]
       ELSE IF ScopesMissing(scopes) THEN [s |-> s, err |-> ErrMissingScopes]
       ELSE [s |-> [s EXCEPT !.scopes = Join(scopes, ","), !.buttonTpl = t.tpl],
             err |-> NoErr]
  ELSE [s |-> s, err |-> NoErr]

RequiredEmptyM(o) == o.Addr = "" \/ o.ClientID = ""
RequiredEmpty(o) == o.Addr = "" \/ o.ClientID = "" \/ o.ClientSecret = ""

New(o) ==
  IF RequiredEmpty(o) THEN [s |-> NoService, err |-> ErrInvalidConfig]
  ELSE LET st == readTemplate(o.SuccessTpl) IN
       IF st.err # NoErr THEN [s |-> NoService, err |-> st.err]
       ELSE LET et == readTemplate(o.ErrorTpl) IN
            IF et.err # NoErr THEN [s |-> NoService, err |-> et.err]
            ELSE LET s0 == [clientID |-> o.ClientID, clientSecret |-> o.ClientSecret,
                            addr |-> o.Addr, successTpl |-> st.tpl,
                            errorTpl |-> et.tpl, buttonTpl |-> NilTpl, scopes |-> ""]
                     cb == configureButton(s0, o.ButtonTpl, o.Scopes)
                 IN IF cb.err # NoErr THEN [s |-> NoService, err |-> cb.err]
                    ELSE [s |-> cb.s, err |-> NoErr]

(***************************************************************************)
(* The OAuth exchange, as the API the tests install answers it: a fresh    *)
(* response per call (ptr is its identity), an error for code "invalid".   *)
(***************************************************************************)
Codes == {"bar", "invalid"}

ExchangeFailsM(code) == FALSE
ExchangeFails(code) == code = "invalid"

GetOAuthResponse(code, r) ==
  IF ExchangeFails(code) THEN [resp |-> NilAuth, err |-> ErrInvalidCode]
  ELSE [resp |-> [AccessToken |-> "foo", ptr |-> r], err |-> NoErr]

(***************************************************************************)
(* http.ResponseWriter: the first WriteHeader fixes the status, later ones *)
(* are ignored; the first Write fixes it at 200 when none was written; a   *)
(* handler that returns without either gets 200.                           *)
(***************************************************************************)
NewWriter == [status |-> 0, body |-> <<>>]

WriteHeader(w, code) == IF w.status = 0 THEN [w EXCEPT !.status = code] ELSE w

Write(w, chunk) == [WriteHeader(w, StatusOK) EXCEPT !.body = Append(@, chunk)]

Finish(w) == WriteHeader(w, StatusOK)

(***************************************************************************)
(* template.Execute: it renders the whole template, or fails before any    *)
(* output, or fails after part of the output has been written.             *)
(***************************************************************************)
RenderOutcomes == {"ok", "failBefore", "failAfter"}

Rendered(tpl, kind) == [tpl |-> tpl, kind |-> kind, part |-> "full"]
Partial(tpl, kind) == [tpl |-> tpl, kind |-> kind, part |-> "partial"]

Execute(tpl, kind, w, out) ==
  CASE out = "ok" -> [w |-> Write(w, Rendered(tpl, kind)), err |-> FALSE]
    [] out = "failAfter" -> [w |-> Write(w, Partial(tpl, kind)), err |-> TRUE]
    [] OTHER -> [w |-> w, err |-> TRUE]

AuthErrorPathM(srv, w, out) ==
  LET ex == Execute(srv.errorTpl, "error", w, out)
  IN [w |-> IF ex.err THEN WriteHeader(ex.w, StatusInternalServerError) ELSE ex.w,
      rerr |-> ex.err]
AuthErrorPath(srv, w, out) ==
  LET ex == Execute(srv.errorTpl, "error", WriteHeader(w, StatusUnauthorized), out)
  IN [w |-> IF ex.err THEN WriteHeader(ex.w, StatusInternalServerError) ELSE ex.w,
      rerr |-> ex.err]

AuthSuccessPath(srv, w, out) ==
  LET ex == Execute(srv.successTpl, "success", w, out)
  IN [w |-> IF ex.err THEN WriteHeader(ex.w, StatusInternalServerError) ELSE ex.w,
      rerr |-> ex.err]

ButtonPath(srv, w, out) ==
  LET ex == Execute(srv.buttonTpl, "button", w, out)
  IN [w |-> IF ex.err THEN WriteHeader(ex.w, StatusInternalServerError) ELSE ex.w,
      rerr |-> ex.err]

(***************************************************************************)
(* The notifier: Run starts one worker goroutine; it loops over auths.     *)
(***************************************************************************)
NotifierWorkersM == {1, 2}
NotifierWorkersNone == {}
NotifierWorkers == {1}

HasCallbackM(cb) == cb = NilCallback
HasCallback(cb) == cb # NilCallback

AfterDispatchM == "exited"
AfterDispatch == "recv"

ChanFull(buf) == Len(buf) >= AuthsCap

(***************************************************************************)
(* State.                                                                  *)
(***************************************************************************)
VARIABLES
  opts,        \* the Options given to New
  phase,       \* "init", "failed", "constructed", "running", "terminated"
  newErr,      \* the error New returned
  s,           \* the slackAuth New returned
  callback,    \* s.callback: 0 (nil) or the number of the OnAuth call that set it
  auths,       \* s.auths: the buffer of the channel
  sendq,       \* the handlers blocked in a send on s.auths, in arrival order
  worker,      \* the notifier goroutines: position and the auth in hand
  req,         \* the /auth requests: position, code, exchange result
  last,        \* the response the most recent handler run wrote
  accepted,    \* history: the results in the order they entered the buffer
  dispatched,  \* history: what the worker did with each result, in order
  cbEarly,     \* history: OnAuth was called once, before any request was issued
  cbDone,      \* history: the requests completed when s.callback was last set
  overlap      \* history: a request was issued while another was in flight

vars == <<opts, phase, newErr, s, callback, auths, sendq, worker, req, last,
          accepted, dispatched, cbEarly, cbDone, overlap>>

IdleReq ==
  [pc |-> "idle", code |-> "", exch |-> "none", resp |-> NilAuth, waited |-> FALSE]

NoResponse ==
  [route |-> "", exch |-> "none", w |-> NewWriter, rerr |-> FALSE,
   panic |-> FALSE]

Init ==
  /\ opts \in OptionsSet
  /\ phase = "init"
  /\ newErr = NoErr
  /\ s = NoService
  /\ callback = NilCallback
  /\ auths = <<>>
  /\ sendq = <<>>
  /\ worker = [w \in NotifierWorkers |-> [pc |-> "none", auth |-> NilAuth]]
  /\ req = [r \in Reqs |-> IdleReq]
  /\ last = NoResponse
  /\ accepted = <<>>
  /\ dispatched = <<>>
  /\ cbEarly = FALSE
  /\ cbDone = {}
  /\ overlap = FALSE

(***************************************************************************)
(* New(opts).                                                              *)
(***************************************************************************)
DoNew ==
  /\ phase = "init"
  /\ LET n == New(opts) IN
       /\ newErr' = n.err
       /\ s' = n.s
       /\ phase' = IF n.err = NoErr THEN "constructed" ELSE "failed"
  /\ UNCHANGED <<opts, callback, auths, sendq, worker, req, last, accepted,
                 dispatched, cbEarly, cbDone, overlap>>

(***************************************************************************)
(* Run: start the worker, then serve; ListenAndServe may fail to bind.     *)
(***************************************************************************)
Run ==
  /\ phase = "constructed"
  /\ worker' = [w \in DOMAIN worker |-> [pc |-> "recv", auth |-> NilAuth]]
  /\ \E bound \in BOOLEAN : phase' = IF bound THEN "running" ELSE "terminated"
  /\ UNCHANGED <<opts, newErr, s, callback, auths, sendq, req, last, accepted,
                 dispatched, cbEarly, cbDone, overlap>>

(***************************************************************************)
(* OnAuth(fn): s.callback = fn.  The field is written here and read by the *)
(* worker with no lock; it is one word, so a racing read yields the old or *)
(* the new function, which is the two orders of OnAuth and WorkerDispatch. *)
(***************************************************************************)
OnAuth ==
  /\ phase \in {"constructed", "running"}
  /\ callback < MaxOnAuth
  /\ callback' = callback + 1
  /\ cbEarly' = (callback = NilCallback /\ \A r \in Reqs : req[r].pc = "idle")
  /\ cbDone' = {r \in Reqs : req[r].pc = "done"}
  /\ UNCHANGED <<opts, phase, newErr, s, auths, sendq, worker, req, last,
                 accepted, dispatched, overlap>>

(***************************************************************************)
(* A client sends GET /auth?code=...                                       *)
(***************************************************************************)
Request(r, code) ==
  /\ phase = "running"
  /\ req[r].pc = "idle"
  /\ \A q \in Reqs : q < r => req[q].pc # "idle"
  /\ req' = [req EXCEPT ![r].pc = "handling", ![r].code = code]
  /\ overlap' = (overlap \/ \E q \in Reqs : req[q].pc \notin {"idle", "done"})
  /\ UNCHANGED <<opts, phase, newErr, s, callback, auths, sendq, worker, last,
                 accepted, dispatched, cbEarly, cbDone>>

(***************************************************************************)
(* authorizationHandler up to the send: exchange, status, page.  On an     *)
(* exchange error the handler returns here.                                *)
(***************************************************************************)
Handle(r) ==
  /\ req[r].pc = "handling"
  /\ \E out \in RenderOutcomes :
       LET res == GetOAuthResponse(req[r].code, r) IN
         IF res.err # NoErr
         THEN LET p == AuthErrorPath(s, NewWriter, out) IN
              /\ req' = [req EXCEPT ![r].pc = "done", ![r].exch = "err",
                                    ![r].resp = res.resp]
              /\ last' = [route |-> "/auth", exch |-> "err",
                          w |-> Finish(p.w), rerr |-> p.rerr, panic |-> FALSE]
         ELSE LET p == AuthSuccessPath(s, NewWriter, out) IN
              /\ req' = [req EXCEPT ![r].pc = "push", ![r].exch = "ok",
                                    ![r].resp = res.resp]
              /\ last' = [route |-> "/auth", exch |-> "ok",
                          w |-> Finish(p.w), rerr |-> p.rerr, panic |-> FALSE]
  /\ UNCHANGED <<opts, phase, newErr, s, callback, auths, sendq, worker,
                 accepted, dispatched, cbEarly, cbDone, overlap>>

(***************************************************************************)
(* s.auths <- resp: into the buffer when there is room, and the handler    *)
(* returns; otherwise the handler parks in the channel's send queue.       *)
(***************************************************************************)
Push(r) ==
  /\ req[r].pc = "push"
  /\ IF ChanFull(auths)
     THEN /\ sendq' = Append(sendq, r)
          /\ req' = [req EXCEPT ![r].pc = "blocked", ![r].waited = TRUE]
          /\ UNCHANGED <<auths, accepted>>
     ELSE /\ auths' = Append(auths, req[r].resp)
          /\ accepted' = Append(accepted, req[r].resp.ptr)
          /\ req' = [req EXCEPT ![r].pc = "done"]
          /\ UNCHANGED sendq
  /\ UNCHANGED <<opts, phase, newErr, s, callback, worker, last, dispatched,
                 cbEarly, cbDone, overlap>>

(***************************************************************************)
(* The worker receives: it takes the head of the buffer; the first parked  *)
(* sender's value moves into the buffer and that handler returns.          *)
(***************************************************************************)
WorkerRecv(w) ==
  /\ worker[w].pc = "recv"
  /\ auths # <<>>
  /\ worker' = [worker EXCEPT ![w] = [pc |-> "dispatch", auth |-> Head(auths)]]
  /\ IF sendq # <<>>
     THEN LET q == Head(sendq) IN
          /\ auths' = Append(Tail(auths), req[q].resp)
          /\ accepted' = Append(accepted, req[q].resp.ptr)
          /\ sendq' = Tail(sendq)
          /\ req' = [req EXCEPT ![q].pc = "done"]
     ELSE /\ auths' = Tail(auths)
          /\ UNCHANGED <<accepted, sendq, req>>
  /\ UNCHANGED <<opts, phase, newErr, s, callback, last, dispatched, cbEarly,
                 cbDone, overlap>>

(***************************************************************************)
(* The worker's loop body: the callback, or the warning.  stale records    *)
(* that the request had completed before the callback was set.             *)
(***************************************************************************)
WorkerDispatch(w) ==
  /\ worker[w].pc = "dispatch"
  /\ dispatched' = Append(dispatched,
       [ptr |-> worker[w].auth.ptr,
        fn |-> IF HasCallback(callback) THEN callback ELSE NilCallback,
        stale |-> worker[w].auth.ptr \in cbDone])
  /\ worker' = [worker EXCEPT ![w] = [pc |-> AfterDispatch, auth |-> NilAuth]]
  /\ UNCHANGED <<opts, phase, newErr, s, callback, auths, sendq, req, last,
                 accepted, cbEarly, cbDone, overlap>>

(***************************************************************************)
(* buttonHandler: GET /.  Execute on a nil template panics.                *)
(***************************************************************************)
ButtonRequest ==
  /\ phase = "running"
  /\ IF s.buttonTpl = NilTpl
     THEN last' = [route |-> "/", exch |-> "none", w |-> NewWriter,
                   rerr |-> FALSE, panic |-> TRUE]
     ELSE \E out \in RenderOutcomes :
            LET p == ButtonPath(s, NewWriter, out) IN
            last' = [route |-> "/", exch |-> "none",
                     w |-> Finish(p.w), rerr |-> p.rerr, panic |-> FALSE]
  /\ UNCHANGED <<opts, phase, newErr, s, callback, auths, sendq, worker, req,
                 accepted, dispatched, cbEarly, cbDone, overlap>>

Next ==
  \/ DoNew
  \/ Run
  \/ OnAuth
  \/ \E r \in Reqs, code \in Codes : Request(r, code)
  \/ \E r \in Reqs : Handle(r)
  \/ \E r \in Reqs : Push(r)
  \/ \E w \in NotifierWorkers : WorkerRecv(w)
  \/ \E w \in NotifierWorkers : WorkerDispatch(w)
  \/ ButtonRequest

Spec == Init /\ [][Next]_vars

(***************************************************************************)
(* The scheduler runs every goroutine that can run: handlers and worker.   *)
(***************************************************************************)
Fairness ==
  /\ \A r \in Reqs : WF_vars(Handle(r)) /\ WF_vars(Push(r))
  /\ \A w \in NotifierWorkers : WF_vars(WorkerRecv(w)) /\ WF_vars(WorkerDispatch(w))

FairSpec == Init /\ [][Next]_vars /\ Fairness

(***************************************************************************)
(* Vocabulary of the properties.                                           *)
(***************************************************************************)
Loads(path) == readTemplate(path).err = NoErr

Constructed == phase \in {"constructed", "running", "terminated"}

NewReturned == phase # "init"

Invocations == {i \in DOMAIN dispatched : dispatched[i].fn # NilCallback}

Invoked(r, fn) ==
  \E i \in DOMAIN dispatched : dispatched[i].ptr = r /\ dispatched[i].fn = fn

RegisteredFirst == cbEarly /\ callback = 1

AllAnswered == \A r \in Reqs : req[r].pc \in {"idle", "done"}

Succeeded == {r \in Reqs : req[r].exch = "ok"}

(***************************************************************************)
(* C1: with the callback registered before any request and never replaced, *)
(* every dispatch is an invocation of that callback with the result of a   *)
(* request whose exchange succeeded, no result is invoked twice, and every *)
(* request whose exchange succeeded is eventually invoked.                 *)
(***************************************************************************)
C1_NothingInvented ==
  RegisteredFirst =>
    /\ \A i \in DOMAIN dispatched :
         /\ dispatched[i].fn = callback
         /\ dispatched[i].ptr \in Succeeded
    /\ \A i, j \in DOMAIN dispatched :
         i # j => dispatched[i].ptr # dispatched[j].ptr

(***************************************************************************)
(* C1: the above in every state, and under fair scheduling every request   *)
(* whose exchange succeeded is eventually handed to the callback.          *)
(***************************************************************************)
C1_ExactlyOnceEach ==
  /\ []C1_NothingInvented
  /\ \A r \in Reqs :
       (RegisteredFirst /\ req[r].exch = "ok") ~> (Invoked(r, 1) \/ ~RegisteredFirst)

C1_Witness ==
  /\ RegisteredFirst
  /\ \A r \in Reqs : Invoked(r, 1)
  /\ \E r \in Reqs : req[r].waited

(***************************************************************************)
(* C2: no callback is invoked with the result of a request whose handler   *)
(* had completed before that callback was registered.                      *)
(***************************************************************************)
C2_NoRetroactiveInvocation ==
  \A i \in DOMAIN dispatched : dispatched[i].fn # NilCallback => ~dispatched[i].stale

(***************************************************************************)
(* C3: the results are dispatched in the order they entered the buffer of  *)
(* auths: the dispatch history is a prefix of the acceptance history.      *)
(***************************************************************************)
C3_DispatchOrderIsAcceptOrder ==
  /\ Len(dispatched) <= Len(accepted)
  /\ \A i \in DOMAIN dispatched : dispatched[i].ptr = accepted[i]

C3_Witness ==
  /\ Len(dispatched) >= 2
  /\ \E r \in Reqs : req[r].waited

(***************************************************************************)
(* C4 as stated: exchange succeeded => 200 and the success page; exchange  *)
(* failed => 401 and the error page.                                       *)
(***************************************************************************)
C4_StatusAndBody ==
  last.route = "/auth" =>
    /\ last.exch = "ok" =>
         /\ last.w.status = StatusOK
         /\ last.w.body = <<Rendered(s.successTpl, "success")>>
    /\ last.exch = "err" =>
         /\ last.w.status = StatusUnauthorized
         /\ last.w.body = <<Rendered(s.errorTpl, "error")>>

(***************************************************************************)
(* C4 amended: exchange failed => 401, and the error page when it renders; *)
(* exchange succeeded and the success page renders => 200 and that page.   *)
(***************************************************************************)
C4_StatusAndBodyWhenRendered ==
  last.route = "/auth" =>
    /\ (last.exch = "ok" /\ ~last.rerr) =>
         /\ last.w.status = StatusOK
         /\ last.w.body = <<Rendered(s.successTpl, "success")>>
    /\ last.exch = "err" =>
         /\ last.w.status = StatusUnauthorized
         /\ ~last.rerr => last.w.body = <<Rendered(s.errorTpl, "error")>>

C4_Witness ==
  /\ last.route = "/auth"
  /\ last.exch = "err"
  /\ last.rerr
  /\ last.w.status = StatusUnauthorized
  /\ \E r \in Reqs : req[r].exch = "ok"

(***************************************************************************)
(* C5: New succeeds exactly when Addr, ClientID and ClientSecret are set,  *)
(* the success and error templates load, and ButtonTpl is empty or loads   *)
(* with Scopes non-empty; without a required field it fails with the       *)
(* invalid-config error.                                                   *)
(***************************************************************************)
C5_NewSucceedsIff ==
  NewReturned =>
    /\ (newErr = NoErr) <=>
         /\ opts.Addr # "" /\ opts.ClientID # "" /\ opts.ClientSecret # ""
         /\ Loads(opts.SuccessTpl)
         /\ Loads(opts.ErrorTpl)
         /\ opts.ButtonTpl = "" \/ (Loads(opts.ButtonTpl) /\ opts.Scopes # <<>>)
    /\ (opts.Addr = "" \/ opts.ClientID = "" \/ opts.ClientSecret = "")
         => newErr = ErrInvalidConfig
    /\ (newErr = NoErr) <=> Constructed

C5_Witness ==
  /\ phase = "constructed"
  /\ opts.ButtonTpl # ""
  /\ s.buttonTpl # NilTpl

(***************************************************************************)
(* C6 as stated: a button template path with no scopes always fails with   *)
(* the missing-scopes error.                                               *)
(***************************************************************************)
C6_AlwaysMissingScopes ==
  (NewReturned /\ opts.ButtonTpl # "" /\ opts.Scopes = <<>>)
    => newErr = ErrMissingScopes

(***************************************************************************)
(* C6 amended: a button template path with no scopes always fails, and     *)
(* with the missing-scopes error when the required fields are set and the  *)
(* three templates load.                                                   *)
(***************************************************************************)
C6_MissingScopesWhenRestValid ==
  (NewReturned /\ opts.ButtonTpl # "" /\ opts.Scopes = <<>>) =>
    /\ newErr # NoErr
    /\ phase = "failed"
    /\ (/\ opts.Addr # "" /\ opts.ClientID # "" /\ opts.ClientSecret # ""
        /\ Loads(opts.SuccessTpl) /\ Loads(opts.ErrorTpl) /\ Loads(opts.ButtonTpl))
         => newErr = ErrMissingScopes

C6_Witness ==
  /\ phase = "failed"
  /\ opts.ButtonTpl # ""
  /\ opts.Scopes = <<>>
  /\ newErr = ErrMissingScopes

(***************************************************************************)
(* C7: a response whose template failed to render has status 500.          *)
(***************************************************************************)
C7_RenderFailureIs500 ==
  last.rerr => last.w.status = StatusInternalServerError

(***************************************************************************)
(* C8: callback registered, requests issued one after another: once every  *)
(* issued request is answered, the callback has been invoked once per      *)
(* successful request.                                                     *)
(***************************************************************************)
C8_InvokedWhenAnswered ==
  (RegisteredFirst /\ ~overlap /\ AllAnswered)
    => Cardinality(Invocations) = Cardinality(Succeeded)

(***************************************************************************)
(* C9: the buffer never holds more than one result, and every handler that *)
(* reaches the send eventually returns.                                    *)
(***************************************************************************)
C9_PushCompletes ==
  /\ [](Len(auths) <= 1)
  /\ \A r \in Reqs : (req[r].pc \in {"push", "blocked"}) ~> (req[r].pc = "done")

C9_Witness ==
  \E r \in Reqs : req[r].waited /\ req[r].pc = "done"

(***************************************************************************)
(* C10: GET / never runs the button handler on a nil button template.      *)
(***************************************************************************)
C10_ButtonTemplateLoaded ==
  last.route = "/" => (s.buttonTpl # NilTpl /\ ~last.panic)
====
